---- MODULE Spec2Model ----
(***************************************************************************)
(* Model of fulltime.py, the "Full Time BT Monitor" script: one run of the *)
(* script over one uploaded billing table.                                 *)
(*                                                                         *)
(* Representation                                                          *)
(*   - a table row is a function from column names to cells;               *)
(*   - text cells that the script normalises (Completed, Service Name)     *)
(*     are sequences of one-character strings, so that strip() and lower() *)
(*     are computed;                                                       *)
(*   - numbers are fixed-point, in hundredths (52004 is 520.04); every     *)
(*     Units value of the model is a multiple of 0.04, so that Units / 4   *)
(*     is exact in hundredths;                                             *)
(*   - a YearMonth "YYYY-MM" is the integer YYYY * 100 + MM, whose numeric *)
(*     order is the lexicographic order of the strings.                    *)
(***************************************************************************)
EXTENDS Integers, Sequences, FiniteSets, TLC

(***************************************************************************)
(* Bounds                                                                  *)
(***************************************************************************)
\* largest number of rows of an uploaded table
MaxRows == 4
\* largest number of rows of an uploaded table that lacks a required column
MaxRowsBadSchema == 2

(***************************************************************************)
(* Program constants                                                       *)
(***************************************************************************)
COL_STAFF == "Staff Name"
COL_DATE == "Appt. Date"
COL_UNITS == "Units"
COL_COMPLETED == "Completed"
COL_SERVICE == "Service Name"

required_cols == <<COL_STAFF, COL_DATE, COL_UNITS, COL_COMPLETED, COL_SERVICE>>

\* 130 hours: the full-time threshold of pass_mask
THRESHOLD == 130
\* a unit is 15 minutes: Hours = Units / 4
UNITS_PER_HOUR == 4

\* n as a fixed-point number in hundredths
Centi(n) == n * 100

Range(s) == {s[i] : i \in 1..Len(s)}

(***************************************************************************)
(* Text                                                                    *)
(***************************************************************************)
Whitespace == {" ", "\t", "\n"}

UpperCase == <<"A", "B", "C", "D", "E", "F", "G", "H", "I", "J", "K", "L", "M",
               "N", "O", "P", "Q", "R", "S", "T", "U", "V", "W", "X", "Y", "Z">>
LowerCase == <<"a", "b", "c", "d", "e", "f", "g", "h", "i", "j", "k", "l", "m",
               "n", "o", "p", "q", "r", "s", "t", "u", "v", "w", "x", "y", "z">>

\* str.lower() of one character
LowerChar(c) ==
    IF \E i \in 1..Len(UpperCase) : UpperCase[i] = c
    THEN LowerCase[CHOOSE i \in 1..Len(UpperCase) : UpperCase[i] = c]
    ELSE c

\* .str.lower()
Lower(s) == [i \in 1..Len(s) |-> LowerChar(s[i])]

RECURSIVE LStrip(_)
LStrip(s) ==
    IF s # <<>> /\ Head(s) \in Whitespace THEN LStrip(Tail(s)) ELSE s

RECURSIVE RStrip(_)
RStrip(s) ==
    IF s # <<>> /\ s[Len(s)] \in Whitespace
    THEN RStrip(SubSeq(s, 1, Len(s) - 1))
    ELSE s

\* .str.strip()
Strip(s) == RStrip(LStrip(s))

\* the literal "yes" of the Completed filter
YES == <<"y", "e", "s">>

\* the literal "Direct Service BT" of the Service Name filter
DIRECT_SERVICE_BT ==
    <<"D", "i", "r", "e", "c", "t", " ", "S", "e", "r", "v", "i", "c", "e",
      " ", "B", "T">>

(***************************************************************************)
(* Cells                                                                   *)
(***************************************************************************)
\* a missing Staff Name cell
NaN == "<NaN>"

\* an Appt. Date cell that pd.to_datetime parses
Date(y, m, d) == [valid |-> TRUE, year |-> y, month |-> m, day |-> d]
\* an Appt. Date cell that pd.to_datetime cannot parse
BadDate == [valid |-> FALSE, year |-> 0, month |-> 0, day |-> 0]
\* the result of pd.to_datetime(errors="coerce") on an unparseable cell
NaT == [valid |-> FALSE, year |-> 0, month |-> 0, day |-> 0]

\* a Units cell holding a number, in hundredths of a unit
Num(v) == [numeric |-> TRUE, value |-> v]
\* a Units cell holding text that is no number, or nothing
NonNumeric == [numeric |-> FALSE, value |-> 0]

\* df[col] = v on one row
Assign(r, col, v) ==
    [c \in (DOMAIN r) \cup {col} |-> IF c = col THEN v ELSE r[c]]

(***************************************************************************)
(* The pipeline stages, as functions of the rows                           *)
(***************************************************************************)
\* Missing, were Staff Name left out of the columns that are checked
Missing_noStaff(columns) ==
    SelectSeq(required_cols, LAMBDA c : c \notin columns /\ c # COL_STAFF)

\* missing = [c for c in required_cols if c not in df.columns]
Missing(columns) ==
    SelectSeq(required_cols, LAMBDA c : c \notin columns)

\* df[COL_COMPLETED] = ...str.strip().str.lower(); df = df[... == "yes"]
FilterCompleted(rows) ==
    LET norm == [i \in 1..Len(rows) |->
                   Assign(rows[i], COL_COMPLETED,
                          Lower(Strip(rows[i][COL_COMPLETED])))]
    IN  SelectSeq(norm, LAMBDA r : r[COL_COMPLETED] = YES)

\* df[COL_SERVICE] = ...str.strip(); df = df[... == "Direct Service BT"]
FilterService(rows) ==
    LET norm == [i \in 1..Len(rows) |->
                   Assign(rows[i], COL_SERVICE, Strip(rows[i][COL_SERVICE]))]
    IN  SelectSeq(norm, LAMBDA r : r[COL_SERVICE] = DIRECT_SERVICE_BT)

\* pd.to_datetime(cell, errors="coerce")
ToDatetime(cell) == IF cell.valid THEN cell ELSE NaT

\* pd.to_numeric(cell, errors="coerce").fillna(0)
ToNumericFillna(cell) == IF cell.numeric THEN cell.value ELSE 0

\* Hours, were the units multiplied by the factor instead of divided
Hours_times(units) == units * UNITS_PER_HOUR

\* df["Hours"] = df[COL_UNITS] / 4
Hours(units) == units \div UNITS_PER_HOUR

\* .dt.to_period("M").astype(str)
YearMonth(date) == date.year * 100 + date.month

\* Normalize, were the rows whose Units is not a number dropped like the
\* rows whose date is not a date
Normalize_dropUnits(rows) ==
    LET dated == [i \in 1..Len(rows) |->
                    Assign(rows[i], COL_DATE, ToDatetime(rows[i][COL_DATE]))]
        kept  == SelectSeq(dated, LAMBDA r : r[COL_DATE] # NaT
                                              /\ r[COL_UNITS].numeric)
        AddHours(r) ==
            LET u  == ToNumericFillna(r[COL_UNITS])
                r1 == Assign(r, COL_UNITS, u)
                r2 == Assign(r1, "Hours", u \div UNITS_PER_HOUR)
            IN  Assign(r2, "YearMonth", YearMonth(r[COL_DATE]))
    IN  [i \in 1..Len(kept) |-> AddHours(kept[i])]

\* the NORMALIZE block: dates, dropna, Units, Hours, YearMonth
Normalize(rows) ==
    LET dated == [i \in 1..Len(rows) |->
                    Assign(rows[i], COL_DATE, ToDatetime(rows[i][COL_DATE]))]
        kept  == SelectSeq(dated, LAMBDA r : r[COL_DATE] # NaT)
        AddHours(r) ==
            LET u  == ToNumericFillna(r[COL_UNITS])
                r1 == Assign(r, COL_UNITS, u)
                r2 == Assign(r1, "Hours", Hours(u))
            IN  Assign(r2, "YearMonth", YearMonth(r[COL_DATE]))
    IN  [i \in 1..Len(kept) |-> AddHours(kept[i])]

(***************************************************************************)
(* Monthly totals                                                          *)
(***************************************************************************)
\* the order pandas sorts Staff Name keys in (string order)
StaffOrder == <<"A", "B">>

StaffRank(s) == CHOOSE i \in 1..Len(StaffOrder) : StaffOrder[i] = s

\* order of the group keys (Staff Name, YearMonth) of a sorted groupby
KeyLess(a, b) ==
    \/ StaffRank(a[1]) < StaffRank(b[1])
    \/ a[1] = b[1] /\ a[2] < b[2]

RECURSIVE SortKeys(_)
SortKeys(S) ==
    IF S = {} THEN <<>>
    ELSE LET m == CHOOSE x \in S : \A y \in S \ {x} : KeyLess(x, y)
         IN  <<m>> \o SortKeys(S \ {m})

\* sorted(...) of a set of YearMonth keys; also the order of an integer index
RECURSIVE SortInts(_)
SortInts(S) ==
    IF S = {} THEN <<>>
    ELSE LET m == CHOOSE x \in S : \A y \in S : x <= y
         IN  <<m>> \o SortInts(S \ {m})

\* the group keys of groupby([COL_STAFF, "YearMonth"]): dropna=True is the
\* default, so a row whose Staff Name is NaN belongs to no group
GroupKeys(rows) ==
    {<<r[COL_STAFF], r["YearMonth"]>> : r \in {x \in Range(rows) : x[COL_STAFF] # NaN}}

\* GroupSum, were the last row of a group kept instead of the sum
RECURSIVE GroupSum_last(_, _)
GroupSum_last(rows, key) ==
    IF rows = <<>> THEN 0
    ELSE LET r == rows[Len(rows)]
         IN  IF <<r[COL_STAFF], r["YearMonth"]>> = key
             THEN r["Hours"]
             ELSE GroupSum_last(SubSeq(rows, 1, Len(rows) - 1), key)

\* ["Hours"].sum() of one group, adding the rows in table order
RECURSIVE GroupSum(_, _)
GroupSum(rows, key) ==
    IF rows = <<>> THEN 0
    ELSE LET r == rows[Len(rows)]
             rest == GroupSum(SubSeq(rows, 1, Len(rows) - 1), key)
         IN  IF <<r[COL_STAFF], r["YearMonth"]>> = key
             THEN rest + r["Hours"]
             ELSE rest

\* the group keys in the order of their first row
RECURSIVE KeysInOrder(_)
KeysInOrder(rows) ==
    IF rows = <<>> THEN <<>>
    ELSE LET before == KeysInOrder(SubSeq(rows, 1, Len(rows) - 1))
             r == rows[Len(rows)]
             k == <<r[COL_STAFF], r["YearMonth"]>>
         IN  IF r[COL_STAFF] = NaN \/ k \in Range(before) THEN before
             ELSE Append(before, k)

\* MonthlyHours, were the groupby called with sort=False
MonthlyHours_unsorted(rows) ==
    LET keys == KeysInOrder(rows)
    IN  [i \in 1..Len(keys) |->
           [staff |-> keys[i][1], ym |-> keys[i][2],
            hours |-> GroupSum(rows, keys[i])]]

\* monthly_hours = df.groupby([COL_STAFF, "YearMonth"], as_index=False)["Hours"].sum()
MonthlyHours(rows) ==
    LET keys == SortKeys(GroupKeys(rows))
    IN  [i \in 1..Len(keys) |->
           [staff |-> keys[i][1], ym |-> keys[i][2],
            hours |-> GroupSum(rows, keys[i])]]

(***************************************************************************)
(* Month selector                                                          *)
(***************************************************************************)
\* all_months = sorted(monthly_hours["YearMonth"].unique())
AllMonths(mh) == SortInts({mh[i].ym : i \in 1..Len(mh)})

\* default_months = all_months[-3:] if len(all_months) >= 3 else all_months
DefaultMonths(months) ==
    IF Len(months) >= 3 THEN SubSeq(months, Len(months) - 2, Len(months))
    ELSE months

\* what st.multiselect can return: the options picked, each once, in the
\* order the user picked them
Multiselect(options) ==
    {s \in UNION {[1..n -> Range(options)] : n \in 0..Len(options)} :
        \A i, j \in 1..Len(s) : s[i] = s[j] => i = j}

(***************************************************************************)
(* Pivot table                                                             *)
(***************************************************************************)
\* the sum of the Hours of the entries of mh for (staff s, month m)
RECURSIVE CellSum(_, _, _)
CellSum(mh, s, m) ==
    IF mh = <<>> THEN 0
    ELSE LET e == Head(mh)
         IN  (IF e.staff = s /\ e.ym = m THEN e.hours ELSE 0)
               + CellSum(Tail(mh), s, m)

\* PivotTable, were the staff with an empty cell dropped instead of filled
PivotTable_complete(mh, sel) ==
    LET filtered == SelectSeq(mh, LAMBDA e : e.ym \in Range(sel))
        cols  == {filtered[i].ym : i \in 1..Len(filtered)}
        Has(s, m) == \E i \in 1..Len(filtered) :
                        filtered[i].staff = s /\ filtered[i].ym = m
        index == SortKeys({<<filtered[i].staff, 0>> :
                             i \in {j \in 1..Len(filtered) :
                                      \A m \in cols : Has(filtered[j].staff, m)}})
    IN  [columns |-> SortInts(cols),
         rows |-> [i \in 1..Len(index) |->
                     [staff |-> index[i][1],
                      cells |-> [m \in cols |->
                                   CellSum(filtered, index[i][1], m)]]]]

\* monthly_hours[isin(selected_months)].pivot_table(index=COL_STAFF,
\*   columns="YearMonth", values="Hours", aggfunc="sum", fill_value=0)
PivotTable(mh, sel) ==
    LET filtered == SelectSeq(mh, LAMBDA e : e.ym \in Range(sel))
        index == SortKeys({<<filtered[i].staff, 0>> : i \in 1..Len(filtered)})
        cols  == {filtered[i].ym : i \in 1..Len(filtered)}
        Has(s, m) == \E i \in 1..Len(filtered) :
                        filtered[i].staff = s /\ filtered[i].ym = m
    IN  [columns |-> SortInts(cols),
         rows |-> [i \in 1..Len(index) |->
                     [staff |-> index[i][1],
                      cells |-> [m \in cols |->
                                   IF Has(index[i][1], m)
                                   THEN CellSum(filtered, index[i][1], m)
                                   ELSE 0]]]]

\* for m in selected_months: if m not in pivot.columns: pivot[m] = 0
EnsureMonths(pv, sel) ==
    LET absent == SelectSeq(sel, LAMBDA m : m \notin Range(pv.columns))
    IN  [columns |-> pv.columns \o absent,
         rows |-> [i \in 1..Len(pv.rows) |->
                     [staff |-> pv.rows[i].staff,
                      cells |-> [m \in Range(pv.columns) \cup Range(absent) |->
                                   IF m \in Range(pv.columns)
                                   THEN pv.rows[i].cells[m] ELSE 0]]]]

\* Reorder, were the last selected month left out of the columns
Reorder_short(pv, sel) ==
    [columns |-> SubSeq(sel, 1, Len(sel) - 1),
     rows |-> [i \in 1..Len(pv.rows) |->
                 [staff |-> pv.rows[i].staff,
                  cells |-> [m \in Range(SubSeq(sel, 1, Len(sel) - 1)) |->
                               pv.rows[i].cells[m]]]]]

\* pivot = pivot[[COL_STAFF] + selected_months]
Reorder(pv, sel) ==
    [columns |-> sel,
     rows |-> [i \in 1..Len(pv.rows) |->
                 [staff |-> pv.rows[i].staff,
                  cells |-> [m \in Range(sel) |-> pv.rows[i].cells[m]]]]]

\* the PIVOT TABLE block
Pivot(mh, sel) == Reorder(EnsureMonths(PivotTable(mh, sel), sel), sel)

(***************************************************************************)
(* PASS / NO PASS                                                          *)
(***************************************************************************)
\* PassMask, were the comparison >= instead of >
PassMask_atLeast(pv, sel) ==
    [i \in 1..Len(pv.rows) |->
       \A m \in Range(sel) : pv.rows[i].cells[m] >= Centi(THRESHOLD)]

\* (pivot[selected_months] > 130).all(axis=1)
PassMask(pv, sel) ==
    [i \in 1..Len(pv.rows) |->
       \A m \in Range(sel) : pv.rows[i].cells[m] > Centi(THRESHOLD)]

\* pivot[mask].copy() with the Status column set
Labelled(pv, mask, status) ==
    LET idx == SelectSeq([i \in 1..Len(pv.rows) |-> i], LAMBDA i : mask[i])
    IN  [columns |-> pv.columns,
         rows |-> [k \in 1..Len(idx) |->
                     [staff |-> pv.rows[idx[k]].staff,
                      cells |-> pv.rows[idx[k]].cells,
                      Status |-> status]]]

\* pass_df = pivot[pass_mask].copy(); pass_df["Status"] = "PASS"
PassDf(pv, sel) == Labelled(pv, PassMask(pv, sel), "PASS")

\* NoPassDf, were the mask (pivot <= 130).all(axis=1) instead of ~pass_mask
NoPassDf_allBelow(pv, sel) ==
    Labelled(pv,
             [i \in 1..Len(pv.rows) |->
                \A m \in Range(sel) : pv.rows[i].cells[m] <= Centi(THRESHOLD)],
             "NO PASS")

\* no_pass_df = pivot[~pass_mask].copy(); no_pass_df["Status"] = "NO PASS"
NoPassDf(pv, sel) ==
    Labelled(pv, [i \in 1..Len(pv.rows) |-> ~PassMask(pv, sel)[i]], "NO PASS")

\* create_excel: one sheet per table
CreateExcel(p, np) == [PASS |-> p, NO_PASS |-> np]

(***************************************************************************)
(* Uploaded tables                                                         *)
(***************************************************************************)
Row(staff, date, units, completed, service) ==
    (COL_STAFF :> staff) @@ (COL_DATE :> date) @@ (COL_UNITS :> units)
      @@ (COL_COMPLETED :> completed) @@ (COL_SERVICE :> service)

\* a qualifying row: Completed "yes", Service Name "Direct Service BT"
Clean(staff, date, units) == Row(staff, date, units, YES, DIRECT_SERVICE_BT)

\* The rows the uploaded tables are made of. Units are in hundredths:
\* 52000 is 520 units (130 hours), 52004 is 520.04 units (130.01 hours).
RowPool ==
    << Clean("A", Date(2024, 11, 15), Num(52400)),
       Clean("A", Date(2024, 12, 3), Num(52000)),
       Clean("A", Date(2024, 12, 3), Num(52004)),
       Clean("A", Date(2024, 12, 20), Num(100)),
       Clean("A", Date(2025, 1, 10), Num(80000)),
       Clean("A", Date(2025, 2, 7), Num(52400)),
       Clean("B", Date(2024, 11, 5), Num(26000)),
       Clean("B", Date(2024, 12, 3), Num(-400)),
       Clean("B", Date(2025, 1, 10), NonNumeric),
       Clean(NaN, Date(2024, 11, 15), Num(52400)),
       Clean("A", BadDate, Num(52400)),
       Row("B", Date(2024, 11, 15), Num(52400),
           <<" ", "Y", "E", "S", " ">>, DIRECT_SERVICE_BT),
       Row("A", Date(2024, 11, 15), Num(52400),
           <<"n", "o">>, DIRECT_SERVICE_BT),
       Row("B", Date(2024, 12, 3), Num(52400),
           YES, <<" ">> \o DIRECT_SERVICE_BT \o <<" ">>),
       Row("A", Date(2024, 12, 3), Num(52400),
           YES, Lower(DIRECT_SERVICE_BT)) >>

\* the tables of n rows whose rows are RowPool[i1], ..., RowPool[in] with
\* i1 <= ... <= in <= k: every multiset of n rows, in one row order
RECURSIVE TablesOf(_, _)
TablesOf(n, k) ==
    IF n = 0 THEN {<<>>}
    ELSE UNION {{Append(t, RowPool[j]) : t \in TablesOf(n - 1, j)} : j \in 1..k}

Tables(max) == UNION {TablesOf(n, Len(RowPool)) : n \in 0..max}

\* the rows of a table that has only the columns cols
Project(rows, cols) ==
    [i \in 1..Len(rows) |-> [c \in cols |-> rows[i][c]]]

(***************************************************************************)
(* State                                                                   *)
(***************************************************************************)
VARIABLES pc, uploaded_file, df, message, monthly_hours, all_months,
          selected_months, pivot, pass_df, no_pass_df, excel_data

vars == <<pc, uploaded_file, df, message, monthly_hours, all_months,
          selected_months, pivot, pass_df, no_pass_df, excel_data>>

\* a table variable the script has not assigned yet
Unassigned == [columns |-> <<>>, rows |-> <<>>]

\* st.file_uploader before a file is chosen
NoFile == [present |-> FALSE, columns |-> {}, rows |-> <<>>]

Init ==
    /\ pc = "upload"
    /\ uploaded_file = NoFile
    /\ df = <<>>
    /\ message = <<"none">>
    /\ monthly_hours = <<>>
    /\ all_months = <<>>
    /\ selected_months = <<>>
    /\ pivot = Unassigned
    /\ pass_df = Unassigned
    /\ no_pass_df = Unassigned
    /\ excel_data = <<>>

\* st.file_uploader returns a file; pd.read_csv / pd.read_excel loads it
Upload ==
    /\ pc = "upload"
    /\ \E cols \in SUBSET Range(required_cols) :
         \E t \in Tables(IF cols = Range(required_cols)
                         THEN MaxRows ELSE MaxRowsBadSchema) :
            /\ uploaded_file' = [present |-> TRUE, columns |-> cols,
                                 rows |-> Project(t, cols)]
            /\ df' = Project(t, cols)
    /\ pc' = "required_columns"
    /\ UNCHANGED <<message, monthly_hours, all_months, selected_months,
                   pivot, pass_df, no_pass_df, excel_data>>

\* if not uploaded_file: st.stop()
NoUpload ==
    /\ pc = "upload"
    /\ pc' = "stopped"
    /\ UNCHANGED <<uploaded_file, df, message, monthly_hours, all_months,
                   selected_months, pivot, pass_df, no_pass_df, excel_data>>

\* if missing: st.error(...); st.stop()
MissingColumns ==
    /\ pc = "required_columns"
    /\ Missing(uploaded_file.columns) # <<>>
    /\ message' = <<"error", Missing(uploaded_file.columns)>>
    /\ pc' = "stopped"
    /\ UNCHANGED <<uploaded_file, df, monthly_hours, all_months,
                   selected_months, pivot, pass_df, no_pass_df, excel_data>>

RequiredColumns ==
    /\ pc = "required_columns"
    /\ Missing(uploaded_file.columns) = <<>>
    /\ pc' = "filter_completed"
    /\ UNCHANGED <<uploaded_file, df, message, monthly_hours, all_months,
                   selected_months, pivot, pass_df, no_pass_df, excel_data>>

FilterCompletedYes ==
    /\ pc = "filter_completed"
    /\ df' = FilterCompleted(df)
    /\ pc' = "filter_service"
    /\ UNCHANGED <<uploaded_file, message, monthly_hours, all_months,
                   selected_months, pivot, pass_df, no_pass_df, excel_data>>

FilterServiceName ==
    /\ pc = "filter_service"
    /\ df' = FilterService(df)
    /\ pc' = "normalize"
    /\ UNCHANGED <<uploaded_file, message, monthly_hours, all_months,
                   selected_months, pivot, pass_df, no_pass_df, excel_data>>

NormalizeRows ==
    /\ pc = "normalize"
    /\ df' = Normalize(df)
    /\ pc' = "monthly_totals"
    /\ UNCHANGED <<uploaded_file, message, monthly_hours, all_months,
                   selected_months, pivot, pass_df, no_pass_df, excel_data>>

MonthlyTotals ==
    /\ pc = "monthly_totals"
    /\ monthly_hours' = MonthlyHours(df)
    /\ pc' = "month_selector"
    /\ UNCHANGED <<uploaded_file, df, message, all_months,
                   selected_months, pivot, pass_df, no_pass_df, excel_data>>

\* the multiselect, left at its default
SelectDefault ==
    /\ pc = "month_selector"
    /\ all_months' = AllMonths(monthly_hours)
    /\ selected_months' = DefaultMonths(AllMonths(monthly_hours))
    /\ pc' = "check_selection"
    /\ UNCHANGED <<uploaded_file, df, message, monthly_hours,
                   pivot, pass_df, no_pass_df, excel_data>>

\* the multiselect, after the user changed it
SelectMonths ==
    /\ pc = "month_selector"
    /\ all_months' = AllMonths(monthly_hours)
    /\ \E sel \in Multiselect(AllMonths(monthly_hours)) :
          selected_months' = sel
    /\ pc' = "check_selection"
    /\ UNCHANGED <<uploaded_file, df, message, monthly_hours,
                   pivot, pass_df, no_pass_df, excel_data>>

\* if len(selected_months) != 3: st.warning(...); st.stop()
RejectSelection ==
    /\ pc = "check_selection"
    /\ Len(selected_months) # 3
    /\ message' = <<"warning", <<>>>>
    /\ pc' = "stopped"
    /\ UNCHANGED <<uploaded_file, df, monthly_hours, all_months,
                   selected_months, pivot, pass_df, no_pass_df, excel_data>>

\* AcceptSelection, were the test len(selected_months) < 3
AcceptSelection_atLeast3 ==
    /\ pc = "check_selection"
    /\ Len(selected_months) >= 3
    /\ selected_months' = SortInts(Range(selected_months))
    /\ pc' = "pivot"
    /\ UNCHANGED <<uploaded_file, df, message, monthly_hours, all_months,
                   pivot, pass_df, no_pass_df, excel_data>>

\* selected_months = sorted(selected_months)
AcceptSelection ==
    /\ pc = "check_selection"
    /\ Len(selected_months) = 3
    /\ selected_months' = SortInts(Range(selected_months))
    /\ pc' = "pivot"
    /\ UNCHANGED <<uploaded_file, df, message, monthly_hours, all_months,
                   pivot, pass_df, no_pass_df, excel_data>>

PivotTableStep ==
    /\ pc = "pivot"
    /\ pivot' = Pivot(monthly_hours, selected_months)
    /\ pc' = "classify"
    /\ UNCHANGED <<uploaded_file, df, message, monthly_hours, all_months,
                   selected_months, pass_df, no_pass_df, excel_data>>

PassNoPass ==
    /\ pc = "classify"
    /\ pass_df' = PassDf(pivot, selected_months)
    /\ no_pass_df' = NoPassDf(pivot, selected_months)
    /\ pc' = "export"
    /\ UNCHANGED <<uploaded_file, df, message, monthly_hours, all_months,
                   selected_months, pivot, excel_data>>

\* the display and the Excel download
ExcelDownload ==
    /\ pc = "export"
    /\ excel_data' = <<CreateExcel(pass_df, no_pass_df)>>
    /\ pc' = "done"
    /\ UNCHANGED <<uploaded_file, df, message, monthly_hours, all_months,
                   selected_months, pivot, pass_df, no_pass_df>>

Next ==
    \/ Upload
    \/ NoUpload
    \/ MissingColumns
    \/ RequiredColumns
    \/ FilterCompletedYes
    \/ FilterServiceName
    \/ NormalizeRows
    \/ MonthlyTotals
    \/ SelectDefault
    \/ SelectMonths
    \/ RejectSelection
    \/ AcceptSelection
    \/ PivotTableStep
    \/ PassNoPass
    \/ ExcelDownload

Spec == Init /\ [][Next]_vars

TypeOK == pc \in {"upload", "required_columns", "filter_completed",
                  "filter_service", "normalize", "monthly_totals",
                  "month_selector", "check_selection", "pivot", "classify",
                  "export", "done", "stopped"}

(***************************************************************************)
(* The properties, stated on the uploaded table and the script's outputs   *)
(***************************************************************************)
\* the uploaded rows, once the required columns are known to be there
Input == uploaded_file.rows

\* a row that passes the Completed and Service Name filters and has a
\* parseable date
Qualifies(r) ==
    /\ Lower(Strip(r[COL_COMPLETED])) = <<"y", "e", "s">>
    /\ Strip(r[COL_SERVICE]) = DIRECT_SERVICE_BT
    /\ r[COL_DATE].valid

\* the Month Key of a qualifying row
MonthKey(r) == r[COL_DATE].year * 100 + r[COL_DATE].month

\* the resolved hours of a row, in hundredths: units / 4, 0 if not a number
Resolved(r) ==
    IF r[COL_UNITS].numeric THEN r[COL_UNITS].value \div 4 ELSE 0

\* the unit count of a row, in hundredths, 0 if not a number
UnitsOf(r) == IF r[COL_UNITS].numeric THEN r[COL_UNITS].value ELSE 0

RECURSIVE SumSeq(_)
SumSeq(q) == IF q = <<>> THEN 0 ELSE Head(q) + SumSeq(Tail(q))

\* the sum of the month cells of all rows of a table
CellTotal(t) ==
    SumSeq([i \in 1..Len(t.rows) |->
              SumSeq([k \in 1..Len(t.columns) |-> t.rows[i].cells[t.columns[k]]])])

\* the qualifying uploaded rows of the selected months
Selected == SelectSeq(Input, LAMBDA r : Qualifies(r)
                                         /\ MonthKey(r) \in Range(selected_months))

\* the qualifying uploaded rows of staff s in month m
RowsOf(s, m) == SelectSeq(Input, LAMBDA r : Qualifies(r) /\ r[COL_STAFF] = s
                                             /\ MonthKey(r) = m)

Classified == pc \in {"export", "done"}
Pivoted == pc \in {"classify", "export", "done"}
Totalled == pc \in {"month_selector", "check_selection", "pivot", "classify",
                    "export", "done"}
    \/ (pc = "stopped" /\ message[1] = "warning")

\* the rows of pass_df and no_pass_df with staff identifier s
Labels(s) ==
    {<<"PASS", k>> : k \in {j \in 1..Len(pass_df.rows) : pass_df.rows[j].staff = s}}
      \cup {<<"NO PASS", k>> :
              k \in {j \in 1..Len(no_pass_df.rows) : no_pass_df.rows[j].staff = s}}

\* C1: a pivoted row's Status is PASS if and only if each of its three
\* selected month columns is strictly greater than 130 hours; otherwise
\* (equality included) it is NO PASS.
C1_PassIffAllAbove130 ==
    Classified =>
      \A i \in 1..Len(pivot.rows) :
         LET r == pivot.rows[i]
             above == \A k \in 1..3 : r.cells[selected_months[k]] > 13000
         IN  /\ above <=> (\E x \in Range(pass_df.rows) :
                              x.staff = r.staff /\ x.Status = "PASS")
             /\ ~above <=> (\E x \in Range(no_pass_df.rows) :
                               x.staff = r.staff /\ x.Status = "NO PASS")
             /\ \A x \in Range(pass_df.rows) : x.Status = "PASS"
             /\ \A x \in Range(no_pass_df.rows) : x.Status = "NO PASS"

\* a row with 131, exactly 130 and 200 hours is NO PASS
C1_Witness ==
    /\ pc = "done"
    /\ \E x \in Range(no_pass_df.rows) :
          /\ x.cells[selected_months[1]] = 13100
          /\ x.cells[selected_months[2]] = 13000
          /\ x.cells[selected_months[3]] = 20000

\* C2: every staff identifier with a qualifying row in a selected month has
\* exactly one pivot row, and that row holds 0 in each selected month in
\* which the staff member has no qualifying row.
C2_PivotComplete ==
    Pivoted =>
      \A j \in 1..Len(Selected) :
         LET s == Selected[j][COL_STAFF]
             mine == {k \in 1..Len(pivot.rows) : pivot.rows[k].staff = s}
         IN  s # NaN =>
               /\ Cardinality(mine) = 1
               /\ \A k \in mine : \A m \in Range(selected_months) :
                     RowsOf(s, m) = <<>> => pivot.rows[k].cells[m] = 0

\* a staff member with rows in only some of the selected months is in the
\* pivot, with 0 in a month without rows
C2_Witness ==
    /\ pc = "done"
    /\ \E k \in 1..Len(pivot.rows) : \E m1, m2 \in Range(selected_months) :
          /\ RowsOf(pivot.rows[k].staff, m1) # <<>>
          /\ RowsOf(pivot.rows[k].staff, m2) = <<>>
          /\ pivot.rows[k].cells[m2] = 0

\* C3 as stated: the month cells of the PASS and NO PASS tables add up to
\* the resolved hours of all qualifying rows of the selected months, the
\* rows without a staff identifier included.
C3_ConservationAllRows ==
    Classified =>
      CellTotal(pass_df) + CellTotal(no_pass_df)
        = SumSeq([j \in 1..Len(Selected) |-> Resolved(Selected[j])])

\* C3: the month cells of the PASS and NO PASS tables add up to the
\* resolved hours of the qualifying rows of the selected months that have
\* a staff identifier.
C3_Conservation ==
    Classified =>
      LET named == SelectSeq(Selected, LAMBDA r : r[COL_STAFF] # NaN)
      IN  CellTotal(pass_df) + CellTotal(no_pass_df)
            = SumSeq([j \in 1..Len(named) |-> Resolved(named[j])])

\* a qualifying row of a selected month without a staff identifier was
\* left out of the tables, whose cells add up to the hours of the others
C3_Witness ==
    /\ pc = "done"
    /\ \E j \in 1..Len(Selected) :
          Selected[j][COL_STAFF] = NaN /\ Resolved(Selected[j]) > 0
    /\ CellTotal(pass_df) + CellTotal(no_pass_df) > 0

\* whether any output of the pivot, classification or export stage exists
Produced ==
    \/ pivot # Unassigned
    \/ pass_df # Unassigned
    \/ no_pass_df # Unassigned
    \/ excel_data # <<>>

\* C4: outputs exist only for a selection of exactly 3 months; a run with
\* another number of months stops at the selection check with no pivot, no
\* PASS table, no NO PASS table and no export; the two tables are produced
\* together.
C4_ExactlyThreeMonths ==
    /\ Produced => Len(selected_months) = 3
    /\ (pc \in {"check_selection", "stopped"} /\ Len(selected_months) # 3)
          => ~Produced
    /\ (pass_df = Unassigned) <=> (no_pass_df = Unassigned)
    /\ Classified => (pass_df # Unassigned /\ no_pass_df # Unassigned)

\* a selection of 4 months was rejected
C4_Witness ==
    /\ pc = "stopped"
    /\ message[1] = "warning"
    /\ Len(selected_months) = 4

\* the required columns that the uploaded table lacks
Lacking ==
    {c \in {"Staff Name", "Appt. Date", "Units", "Completed", "Service Name"} :
        c \notin uploaded_file.columns}

\* C5: an uploaded table that lacks a required column gets as far as the
\* column check and no further: the run stops with an error naming the
\* missing columns, the rows are as uploaded, and there are no monthly
\* totals, month choices, pivot or classification output.
C5_MissingColumnsAbort ==
    (uploaded_file.present /\ Lacking # {}) =>
      /\ pc \in {"required_columns", "stopped"}
      /\ pc = "stopped" =>
            (message[1] = "error" /\ Range(message[2]) = Lacking)
      /\ df = uploaded_file.rows
      /\ monthly_hours = <<>>
      /\ all_months = <<>>
      /\ selected_months = <<>>
      /\ ~Produced

\* a table with rows that lacks the Staff Name column was rejected
C5_Witness ==
    /\ pc = "stopped"
    /\ message[1] = "error"
    /\ "Staff Name" \in Lacking
    /\ uploaded_file.rows # <<>>

\* C6 as stated: every pivoted row has exactly 3 month columns, each >= 0,
\* whatever the Units values.
C6_CellsNonNegative ==
    Pivoted =>
      /\ Len(pivot.columns) = 3
      /\ \A i \in 1..Len(pivot.rows) :
            /\ DOMAIN pivot.rows[i].cells = Range(pivot.columns)
            /\ Cardinality(DOMAIN pivot.rows[i].cells) = 3
            /\ \A m \in DOMAIN pivot.rows[i].cells : pivot.rows[i].cells[m] >= 0

\* C6: every pivoted row has exactly 3 month columns; each is >= 0 when no
\* qualifying row of the selected months has a negative Units value.
C6_CellsNonNegativeUnits ==
    Pivoted =>
      /\ Len(pivot.columns) = 3
      /\ \A i \in 1..Len(pivot.rows) :
            /\ DOMAIN pivot.rows[i].cells = Range(pivot.columns)
            /\ Cardinality(DOMAIN pivot.rows[i].cells) = 3
            /\ (\A j \in 1..Len(Selected) : UnitsOf(Selected[j]) >= 0)
                  => \A m \in DOMAIN pivot.rows[i].cells :
                        pivot.rows[i].cells[m] >= 0

\* a pivot with rows, built from rows without negative Units
C6_Witness ==
    /\ pc = "done"
    /\ pivot.rows # <<>>
    /\ \A j \in 1..Len(Selected) : UnitsOf(Selected[j]) >= 0
    /\ \E i \in 1..Len(pivot.rows) : \E m \in Range(pivot.columns) :
          pivot.rows[i].cells[m] = 0

\* C7: every pivoted row appears in exactly one of the PASS and NO PASS
\* tables, with the same staff identifier and month values, and the two
\* tables hold nothing else.
C7_Partition ==
    Classified =>
      /\ \A i \in 1..Len(pivot.rows) :
            /\ Cardinality(Labels(pivot.rows[i].staff)) = 1
            /\ \A x \in Range(pass_df.rows) \cup Range(no_pass_df.rows) :
                  x.staff = pivot.rows[i].staff
                     => x.cells = pivot.rows[i].cells
      /\ Len(pass_df.rows) + Len(no_pass_df.rows) = Len(pivot.rows)
      /\ \A x \in Range(pass_df.rows) \cup Range(no_pass_df.rows) :
            \E i \in 1..Len(pivot.rows) : pivot.rows[i].staff = x.staff
      /\ pass_df.columns = pivot.columns
      /\ no_pass_df.columns = pivot.columns

\* a pivot of two rows, one in each table, the NO PASS one with a month
\* above 130
C7_Witness ==
    /\ pc = "done"
    /\ Len(pass_df.rows) = 1
    /\ Len(no_pass_df.rows) = 1
    /\ \E m \in Range(selected_months) : no_pass_df.rows[1].cells[m] > 13000

\* the uploaded rows in the order p
Permuted(p) == [i \in 1..Len(Input) |-> Input[p[i]]]

\* the monthly totals the script computes from the rows in a given order
TotalsOf(rows) ==
    MonthlyHours(Normalize(FilterService(FilterCompleted(rows))))

C9_UnitsToHours ==
    /\ Totalled =>
          \A e \in Range(monthly_hours) :
             LET rows == RowsOf(e.staff, e.ym)
                 units == SumSeq([j \in 1..Len(rows) |-> UnitsOf(rows[j])])
             IN  /\ e.hours * 4 = units
                 /\ units = 52000 => e.hours = 13000
                 /\ units >= 52100 => e.hours > 13000
    /\ Classified =>
          \A x \in Range(pass_df.rows) : \A m \in Range(selected_months) :
             LET rows == RowsOf(x.staff, m)
             IN  SumSeq([j \in 1..Len(rows) |-> UnitsOf(rows[j])]) > 52000

\* two rows of 260 units each made a monthly total of exactly 130 hours
C9_Witness ==
    /\ Totalled
    /\ \E e \in Range(monthly_hours) :
          /\ Len(RowsOf(e.staff, e.ym)) = 2
          /\ e.hours = 13000

\* C10: a qualifying row with a staff identifier whose Units is not a
\* number is kept with 0 hours: its (staff, month) pair has a monthly total,
\* to which it adds nothing; its month is among the selectable months; and
\* its staff member is in the pivot when that month is selected.
C10_NonNumericKept ==
    \A j \in 1..Len(Input) :
       (uploaded_file.present /\ Lacking = {} /\ Qualifies(Input[j]) /\ ~Input[j][COL_UNITS].numeric
          /\ Input[j][COL_STAFF] # NaN) =>
         LET s == Input[j][COL_STAFF]
             m == MonthKey(Input[j])
             numeric == SelectSeq(RowsOf(s, m), LAMBDA r : r[COL_UNITS].numeric)
         IN  /\ Totalled =>
                   \E e \in Range(monthly_hours) :
                      /\ e.staff = s /\ e.ym = m
                      /\ e.hours = SumSeq([k \in 1..Len(numeric) |->
                                             Resolved(numeric[k])])
             /\ (Totalled /\ pc # "month_selector") => m \in Range(all_months)
             /\ (Pivoted /\ m \in Range(selected_months)) =>
                   \E i \in 1..Len(pivot.rows) : pivot.rows[i].staff = s

\* a staff member whose only row has a non-numeric Units is in the pivot,
\* with 0 hours
C10_Witness ==
    /\ pc = "done"
    /\ \E j \in 1..Len(Input) :
          /\ Qualifies(Input[j]) /\ ~Input[j][COL_UNITS].numeric
          /\ MonthKey(Input[j]) \in Range(selected_months)
          /\ \A k \in 1..Len(Input) :
                Input[k][COL_STAFF] = Input[j][COL_STAFF] => k = j
          /\ \E i \in 1..Len(pivot.rows) :
                /\ pivot.rows[i].staff = Input[j][COL_STAFF]
                /\ pivot.rows[i].cells[MonthKey(Input[j])] = 0

====
